---------------------------- MODULE Spec2Model ----------------------------
(***************************************************************************)
(* A model of ncruces/go-image: package rotateflip (Image, rotateFlip,     *)
(* rotateFlipImage, rotateBounds, rotateYCbCrSubsampleRatio,               *)
(* subsampledBounds, parity) and package imageutil (YCbCrUpsample,         *)
(* NYCbCrAUpsample, resample, upsample, subsampleRatios).                  *)
(*                                                                         *)
(* Pixel buffers live in a heap of byte arrays; a Go slice is a window     *)
(* [buf, lo, hi] onto one of them, so that a crop shares its parent's      *)
(* array and a write through one slice is seen through every alias.        *)
(* The functions of the standard image package the code calls (New*,       *)
(* SubImage, At, the offset helpers) are modelled as the library defines   *)
(* them, with Go's integer division (truncation toward zero).              *)
(***************************************************************************)
EXTENDS Integers, Sequences, FiniteSets, TLC

VARIABLES heap, src, hist, rf1, rf2, ups, ups2

vars == <<heap, src, hist, rf1, rf2, ups, ups2>>

---------------------------------------------------------------------------
(* Bounds of the model.                                                    *)

\* Width and height of the parent image the sources are cropped from.
ParentW == 4
ParentH == 2
\* Operation codes handed to Image range over -MaxOpCode .. MaxOpCode.
MaxOpCode == 9
\* Longest chain of Image calls applied to one source.
MaxChain == 4

---------------------------------------------------------------------------
(* Operation constants.                                                    *)

None == 0
Rotate90 == 1
Rotate180 == 2
Rotate270 == 3
FlipX == 4
Transpose == 5
FlipY == 6
Transverse == 7
FlipXY == Rotate180

Rotate90FlipX == Transpose
Rotate180FlipX == FlipY
Rotate270FlipX == Transverse
Rotate90FlipY == Transverse
Rotate180FlipY == FlipX
Rotate270FlipY == Transpose
Rotate90FlipXY == Rotate270
Rotate180FlipXY == None
Rotate270FlipXY == Rotate90

---------------------------------------------------------------------------
(* Go integer arithmetic.                                                  *)

\* Go's / on ints truncates toward zero.
GoDiv(a, b) == IF a >= 0 THEN a \div b ELSE -((-a) \div b)

Min2(a, b) == IF a <= b THEN a ELSE b

\* x & m for a mask m = 2^k - 1 on a two's complement int: the least
\* non-negative residue, also for negative x.
AndMask(x, m) == x % (m + 1)

---------------------------------------------------------------------------
(* Rectangles (image.Rectangle): Min inclusive, Max exclusive.             *)

Rect(x0, y0, x1, y1) == [minX |-> x0, minY |-> y0, maxX |-> x1, maxY |-> y1]

ZR == Rect(0, 0, 0, 0)

Dx(r) == r.maxX - r.minX

Dy(r) == r.maxY - r.minY

Empty(r) == r.minX >= r.maxX \/ r.minY >= r.maxY

In(x, y, r) == r.minX <= x /\ x < r.maxX /\ r.minY <= y /\ y < r.maxY

Intersect(r, s) ==
  LET t == Rect(IF r.minX < s.minX THEN s.minX ELSE r.minX,
                IF r.minY < s.minY THEN s.minY ELSE r.minY,
                IF r.maxX > s.maxX THEN s.maxX ELSE r.maxX,
                IF r.maxY > s.maxY THEN s.maxY ELSE r.maxY)
  IN IF Empty(t) THEN ZR ELSE t

---------------------------------------------------------------------------
(* The heap and slices.                                                    *)

\* The nil slice.
NilSlice == [buf |-> 0, lo |-> 0, hi |-> 0]

SliceLen(s) == s.hi - s.lo

\* The bytes a slice shows.
Bytes(h, s) == IF s.buf = 0 THEN << >> ELSE SubSeq(h[s.buf], s.lo + 1, s.hi)

\* The heap after the window of slice s is overwritten with bs
\* (Len(bs) = SliceLen(s)).
Store(h, s, bs) ==
  IF s.buf = 0 THEN h
  ELSE [h EXCEPT ![s.buf] =
          SubSeq(h[s.buf], 1, s.lo) \o bs
            \o SubSeq(h[s.buf], s.hi + 1, Len(h[s.buf]))]

\* s[i:] (len and cap coincide for every slice of the model).
SliceFrom(s, i) == [buf |-> s.buf, lo |-> s.lo + i, hi |-> s.hi]

\* make([]uint8, n): a new zeroed array.
Make(h, n) == Append(h, SubSeq([i \in 1..n |-> 0], 1, n))

\* copy(dst[at:to], src[a:b]) on byte sequences: [ok, dst]; ok is FALSE when
\* a slice expression is out of range (a run-time panic).
GoCopy(dst, at, to, srcb, a, b) ==
  IF at < 0 \/ at > to \/ to > Len(dst) \/ a < 0 \/ a > b \/ b > Len(srcb)
  THEN [ok |-> FALSE, dst |-> dst]
  ELSE LET n == Min2(to - at, b - a)
       IN [ok |-> TRUE,
           dst |-> SubSeq(dst, 1, at) \o SubSeq(srcb, a + 1, a + n)
                     \o SubSeq(dst, at + n + 1, Len(dst))]

---------------------------------------------------------------------------
(* The image layouts of the standard image package.                        *)

PackedKinds == {"Alpha", "Alpha16", "CMYK", "Gray", "Gray16", "NRGBA",
                "NRGBA64", "RGBA", "RGBA64", "Paletted"}

PlanarKinds == {"YCbCr", "NYCbCrA"}

\* The six enumerated subsample ratios.
Ratios == {"444", "422", "420", "440", "411", "410"}

\* A YCbCrSubsampleRatio value outside the enumeration.
UnknownRatio == "unknown"

\* Bytes per pixel of a packed layout, as Image passes it to rotateFlip.
BytesPerPixel(kind) ==
  CASE kind \in {"Alpha", "Gray", "Paletted"} -> 1
    [] kind \in {"Alpha16", "Gray16"} -> 2
    [] kind \in {"CMYK", "NRGBA", "RGBA"} -> 4
    [] kind \in {"NRGBA64", "RGBA64"} -> 8

\* Bytes per colour component: the 16 bit layouts store big-endian pairs.
BytesPerComponent(kind) ==
  IF kind \in {"Alpha16", "Gray16", "NRGBA64", "RGBA64"} THEN 2 ELSE 1

\* image.NewAlpha ... image.NewPaletted: [heap, img].
NewPacked(h, kind, r, pal) ==
  LET bpp == BytesPerPixel(kind)
      n == bpp * Dx(r) * Dy(r)
  IN [heap |-> Make(h, n),
      img |-> [kind |-> kind,
               Pix |-> [buf |-> Len(h) + 1, lo |-> 0, hi |-> n],
               Stride |-> bpp * Dx(r),
               Rect |-> r,
               Palette |-> pal]]

\* image.yCbCrSize: the luma and chroma plane sizes for a rectangle.
yCbCrSize(r, ratio) ==
  LET w == Dx(r)
      h == Dy(r)
      cw2 == GoDiv(r.maxX + 1, 2) - GoDiv(r.minX, 2)
      ch2 == GoDiv(r.maxY + 1, 2) - GoDiv(r.minY, 2)
      cw4 == GoDiv(r.maxX + 3, 4) - GoDiv(r.minX, 4)
  IN CASE ratio = "422" -> [w |-> w, h |-> h, cw |-> cw2, ch |-> h]
       [] ratio = "420" -> [w |-> w, h |-> h, cw |-> cw2, ch |-> ch2]
       [] ratio = "440" -> [w |-> w, h |-> h, cw |-> w, ch |-> ch2]
       [] ratio = "411" -> [w |-> w, h |-> h, cw |-> cw4, ch |-> h]
       [] ratio = "410" -> [w |-> w, h |-> h, cw |-> cw4, ch |-> ch2]
       [] OTHER -> [w |-> w, h |-> h, cw |-> w, ch |-> h]

\* Sequencing of steps: the value v handed to the rest of the computation.
With(v, F(_)) == F(v)

\* Sequencing of steps that may panic: the rest runs only when c.ok.
Bind(c, F(_)) == IF c.ok THEN F(c) ELSE c

\* image.NewYCbCr and image.NewNYCbCrA: one array, the planes are windows
\* of it (Y, Cb, Cr and, for NYCbCrA, A).  [heap, img].
NewPlanar(h, kind, r, ratio) ==
  With(yCbCrSize(r, ratio), LAMBDA z :
    With(<<z.w * z.h, z.cw * z.ch, Len(h) + 1>>, LAMBDA t :
      [heap |-> Make(h, IF kind = "NYCbCrA" THEN 2 * t[1] + 2 * t[2]
                        ELSE t[1] + 2 * t[2]),
       img |-> [kind |-> kind,
                Y |-> [buf |-> t[3], lo |-> 0, hi |-> t[1]],
                Cb |-> [buf |-> t[3], lo |-> t[1], hi |-> t[1] + t[2]],
                Cr |-> [buf |-> t[3], lo |-> t[1] + t[2], hi |-> t[1] + 2 * t[2]],
                A |-> IF kind = "NYCbCrA"
                      THEN [buf |-> t[3], lo |-> t[1] + 2 * t[2],
                            hi |-> 2 * t[1] + 2 * t[2]]
                      ELSE NilSlice,
                YStride |-> z.w,
                CStride |-> z.cw,
                AStride |-> IF kind = "NYCbCrA" THEN z.w ELSE 0,
                SubsampleRatio |-> ratio,
                Rect |-> r]]))

\* PixOffset of the packed layouts.
PixOffset(p, x, y) ==
  (y - p.Rect.minY) * p.Stride + (x - p.Rect.minX) * BytesPerPixel(p.kind)

\* YCbCr.YOffset.
YOffset(p, x, y) == (y - p.Rect.minY) * p.YStride + (x - p.Rect.minX)

\* NYCbCrA.AOffset.
AOffset(p, x, y) == (y - p.Rect.minY) * p.AStride + (x - p.Rect.minX)

\* YCbCr.COffset.
COffset(p, x, y) ==
  LET r == p.Rect
      s == p.CStride
      x2 == GoDiv(x, 2) - GoDiv(r.minX, 2)
      x4 == GoDiv(x, 4) - GoDiv(r.minX, 4)
      y2 == GoDiv(y, 2) - GoDiv(r.minY, 2)
  IN CASE p.SubsampleRatio = "422" -> (y - r.minY) * s + x2
       [] p.SubsampleRatio = "420" -> y2 * s + x2
       [] p.SubsampleRatio = "440" -> y2 * s + (x - r.minX)
       [] p.SubsampleRatio = "411" -> (y - r.minY) * s + x4
       [] p.SubsampleRatio = "410" -> y2 * s + x4
       [] OTHER -> (y - r.minY) * s + (x - r.minX)

\* SubImage of a packed or planar image: a view sharing the parent's array.
SubImage(p, rr) ==
  LET r == Intersect(rr, p.Rect)
  IN IF p.kind \in PackedKinds
     THEN IF Empty(r)
          THEN [kind |-> p.kind, Pix |-> NilSlice, Stride |-> 0, Rect |-> ZR,
                Palette |-> p.Palette]
          ELSE [p EXCEPT !.Pix = SliceFrom(p.Pix, PixOffset(p, r.minX, r.minY)),
                         !.Rect = r]
     ELSE IF Empty(r)
          THEN [kind |-> p.kind, Y |-> NilSlice, Cb |-> NilSlice,
                Cr |-> NilSlice, A |-> NilSlice, YStride |-> 0, CStride |-> 0,
                AStride |-> 0, SubsampleRatio |-> p.SubsampleRatio, Rect |-> ZR]
          ELSE LET yi == YOffset(p, r.minX, r.minY)
                   ci == COffset(p, r.minX, r.minY)
                   ai == AOffset(p, r.minX, r.minY)
               IN [p EXCEPT !.Y = SliceFrom(p.Y, yi),
                            !.Cb = SliceFrom(p.Cb, ci),
                            !.Cr = SliceFrom(p.Cr, ci),
                            !.A = IF p.kind = "NYCbCrA"
                                  THEN SliceFrom(p.A, ai) ELSE NilSlice,
                            !.Rect = r]

\* The test's wrapper: hides the concrete layout behind the Image interface.
Wrapper(i) == [kind |-> "wrapper", i |-> i]

\* palette.Plan9 as the test attaches it: entry i of the colour table.
Plan9 == "Plan9"

PaletteColor(pal, i) == <<pal, i>>

\* One colour component read big-endian from n bytes at 0-based index i.
Component(bs, i, n) == IF n = 1 THEN bs[i + 1] ELSE bs[i + 1] * 256 + bs[i + 2]

\* At of a packed layout: the colour value, tagged with its colour type.
PackedAt(h, p, x, y) ==
  LET c == BytesPerComponent(p.kind)
      n == BytesPerPixel(p.kind) \div c
      bs == Bytes(h, p.Pix)
      i == PixOffset(p, x, y)
  IN IF p.kind = "Paletted"
     THEN IF In(x, y, p.Rect) THEN PaletteColor(p.Palette, bs[i + 1])
          ELSE PaletteColor(p.Palette, 0)
     ELSE IF In(x, y, p.Rect)
          THEN <<p.kind, SubSeq([k \in 1..n |-> Component(bs, i + (k - 1) * c, c)], 1, n)>>
          ELSE <<p.kind, SubSeq([k \in 1..n |-> 0], 1, n)>>

\* YCbCr.At and NYCbCrA.At.
PlanarAt(h, p, x, y) ==
  IF ~In(x, y, p.Rect)
  THEN IF p.kind = "NYCbCrA" THEN <<p.kind, 0, 0, 0, 0>> ELSE <<p.kind, 0, 0, 0>>
  ELSE LET yy == Bytes(h, p.Y)[YOffset(p, x, y) + 1]
           cb == Bytes(h, p.Cb)[COffset(p, x, y) + 1]
           cr == Bytes(h, p.Cr)[COffset(p, x, y) + 1]
       IN IF p.kind = "NYCbCrA"
          THEN <<p.kind, yy, cb, cr, Bytes(h, p.A)[AOffset(p, x, y) + 1]>>
          ELSE <<p.kind, yy, cb, cr>>

---------------------------------------------------------------------------
(* Package rotateflip.                                                     *)

\* op &= 7
Sanitize(op) == AndMask(op, 7)

\* op&1 != 0
IsRotate(op) == AndMask(op, 1) # 0

\* parity: bit uint8(op) of 0226 (octal).
parity(op) ==
  LET s == op % 256
  IN IF s > 7 THEN FALSE ELSE ((150 \div (2 ^ s)) % 2) # 0

\* rotateBounds without the exchange of width and height.
rotateBoundsNoSwap(bounds, op) == Rect(0, 0, Dx(bounds), Dy(bounds))

rotateBounds(bounds, op) ==
  IF IsRotate(op) THEN Rect(0, 0, Dy(bounds), Dx(bounds))
  ELSE Rect(0, 0, Dx(bounds), Dy(bounds))

RECURSIVE Bounds(_)
\* Bounds of any image: a layout's Rect, wrapper.Bounds,
\* rotateFlipImage.Bounds.
Bounds(img) ==
  CASE img.kind = "wrapper" -> Bounds(img.i)
    [] img.kind = "rotateFlipImage" -> rotateBounds(Bounds(img.src), img.op)
    [] OTHER -> img.Rect

\* rotateFlipImage.At with Rotate90 and Rotate270 exchanged: a quarter turn
\* the other way round.
rotateFlipImageAtCounter(bounds, op, x, y) ==
  CASE op = FlipX -> <<bounds.maxX - x - 1, bounds.minY + y>>
    [] op = FlipXY -> <<bounds.maxX - x - 1, bounds.maxY - y - 1>>
    [] op = FlipY -> <<bounds.minX + x, bounds.maxY - y - 1>>
    [] op = Transpose -> <<bounds.minX + y, bounds.minY + x>>
    [] op = Rotate270 -> <<bounds.minX + y, bounds.maxY - x - 1>>
    [] op = Transverse -> <<bounds.maxX - y - 1, bounds.maxY - x - 1>>
    [] op = Rotate90 -> <<bounds.maxX - y - 1, bounds.minY + x>>
    [] OTHER -> <<bounds.minX + x, bounds.minY + y>>

\* The switch of rotateFlipImage.At: the source position read for (x, y).
rotateFlipImageAt(bounds, op, x, y) ==
  CASE op = FlipX -> <<bounds.maxX - x - 1, bounds.minY + y>>
    [] op = FlipXY -> <<bounds.maxX - x - 1, bounds.maxY - y - 1>>
    [] op = FlipY -> <<bounds.minX + x, bounds.maxY - y - 1>>
    [] op = Transpose -> <<bounds.minX + y, bounds.minY + x>>
    [] op = Rotate90 -> <<bounds.minX + y, bounds.maxY - x - 1>>
    [] op = Transverse -> <<bounds.maxX - y - 1, bounds.maxY - x - 1>>
    [] op = Rotate270 -> <<bounds.maxX - y - 1, bounds.minY + x>>
    [] OTHER -> <<bounds.minX + x, bounds.minY + y>>

RECURSIVE At(_, _, _, _)
\* At of any image; for rotateFlipImage the inverse coordinate mapping.
At(h, img, x, y) ==
  CASE img.kind = "wrapper" -> At(h, img.i, x, y)
    [] img.kind = "rotateFlipImage" ->
         At(h, img.src, rotateFlipImageAt(Bounds(img.src), img.op, x, y)[1],
            rotateFlipImageAt(Bounds(img.src), img.op, x, y)[2])
    [] img.kind \in PackedKinds -> PackedAt(h, img, x, y)
    [] OTHER -> PlanarAt(h, img, x, y)

\* The row-copy loop with a row taken as src_width bytes, whatever bpp.
RECURSIVE rowCopyOneBytePixels(_, _, _, _, _, _, _, _, _, _)
rowCopyOneBytePixels(y, dst, dst_row, src_row, srcb, src_stride, src_width, src_height, dst_y_offset, bpp) ==
  IF y >= src_height THEN [ok |-> TRUE, dst |-> dst]
  ELSE Bind(GoCopy(dst, dst_row, Len(dst), srcb, src_row, src_row + src_width),
            LAMBDA c : rowCopyOneBytePixels(y + 1, c.dst, dst_row + dst_y_offset,
                                            src_row + src_stride, srcb, src_stride,
                                            src_width, src_height, dst_y_offset, bpp))

\* The contiguous row-copy loop of rotateFlip, from row y on.
RECURSIVE rowCopy(_, _, _, _, _, _, _, _, _, _)
rowCopy(y, dst, dst_row, src_row, srcb, src_stride, src_width, src_height, dst_y_offset, bpp) ==
  IF y >= src_height THEN [ok |-> TRUE, dst |-> dst]
  ELSE Bind(GoCopy(dst, dst_row, Len(dst), srcb, src_row, src_row + src_width * bpp),
            LAMBDA c : rowCopy(y + 1, c.dst, dst_row + dst_y_offset,
                               src_row + src_stride, srcb, src_stride,
                               src_width, src_height, dst_y_offset, bpp))

\* The inner per-pixel loop of rotateFlip, from column x on.
RECURSIVE pixelCopy(_, _, _, _, _, _, _, _)
pixelCopy(x, dst, dst_pixel, src_pixel, srcb, src_width, dst_x_offset, bpp) ==
  IF x >= src_width THEN [ok |-> TRUE, dst |-> dst]
  ELSE Bind(GoCopy(dst, dst_pixel, Len(dst), srcb, src_pixel, src_pixel + bpp),
            LAMBDA c : pixelCopy(x + 1, c.dst, dst_pixel + dst_x_offset,
                                 src_pixel + bpp, srcb, src_width,
                                 dst_x_offset, bpp))

\* The outer loop of the per-pixel branch of rotateFlip, from row y on.
RECURSIVE pixelRows(_, _, _, _, _, _, _, _, _, _, _)
pixelRows(y, dst, dst_row, src_row, srcb, src_stride, src_width, src_height, dst_x_offset, dst_y_offset, bpp) ==
  IF y >= src_height THEN [ok |-> TRUE, dst |-> dst]
  ELSE Bind(pixelCopy(0, dst, dst_row, src_row, srcb, src_width, dst_x_offset, bpp),
            LAMBDA c : pixelRows(y + 1, c.dst, dst_row + dst_y_offset,
                                 src_row + src_stride, srcb, src_stride,
                                 src_width, src_height, dst_x_offset,
                                 dst_y_offset, bpp))

\* The two copy branches of rotateFlip, once the start offset and the
\* steps are known.
rotateFlipLoops(dst, dst_row, dst_x_offset, dst_y_offset, srcb, src_stride, src_width, src_height, bpp) ==
  IF dst_x_offset = bpp
  THEN rowCopy(0, dst, dst_row, 0, srcb, src_stride, src_width, src_height,
               dst_y_offset, bpp)
  ELSE pixelRows(0, dst, dst_row, 0, srcb, src_stride, src_width, src_height,
                 dst_x_offset, dst_y_offset, bpp)

\* rotateFlip on the bytes of the destination and source slices:
\* [ok, dst], ok FALSE when a slice expression panics.
rotateFlip(dst, dst_stride, dst_width, dst_height, srcb, src_stride, src_width, src_height, op, bpp) ==
  LET rotate == IsRotate(op)
      flip_y == AndMask(op, 3) >= 2
      flip_x == parity(op)
  IN rotateFlipLoops(
       dst,
       (IF flip_x THEN bpp * (dst_width - 1) ELSE 0)
         + (IF flip_y THEN dst_stride * (dst_height - 1) ELSE 0),
       IF rotate THEN (IF flip_y THEN -dst_stride ELSE dst_stride)
       ELSE (IF flip_x THEN -bpp ELSE bpp),
       IF rotate THEN (IF flip_x THEN -bpp ELSE bpp)
       ELSE (IF flip_y THEN -dst_stride ELSE dst_stride),
       srcb, src_stride, src_width, src_height, bpp)

\* The resolver as it was before it looked at the rectangle: the ratio and
\* the rotation alone decide.
rotateYCbCrSubsampleRatioNoBounds(subsampleRatio, bounds, op) ==
  IF IsRotate(op)
  THEN CASE subsampleRatio = "422" -> [ratio |-> "440", ok |-> TRUE]
         [] subsampleRatio = "440" -> [ratio |-> "422", ok |-> TRUE]
         [] subsampleRatio \in {"444", "420"} -> [ratio |-> subsampleRatio, ok |-> TRUE]
         [] OTHER -> [ratio |-> "444", ok |-> FALSE]
  ELSE [ratio |-> subsampleRatio, ok |-> TRUE]

\* The resolver without the rotation check of the 411 and 410 case.
rotateYCbCrSubsampleRatioNoRotateCheck(subsampleRatio, bounds, op) ==
  LET oddX == AndMask(bounds.minX, 1) # 0 \/ AndMask(bounds.maxX, 1) # 0
      oddY == AndMask(bounds.minY, 1) # 0 \/ AndMask(bounds.maxY, 1) # 0
      off4X == AndMask(bounds.minX, 3) # 0 \/ AndMask(bounds.maxX, 3) # 0
      no == [ratio |-> "-1", ok |-> FALSE]
      same == [ratio |-> subsampleRatio, ok |-> TRUE]
  IN CASE subsampleRatio = "444" -> same
       [] subsampleRatio = "420" -> IF oddX \/ oddY THEN no ELSE same
       [] subsampleRatio = "422" ->
            IF oddX THEN no
            ELSE IF IsRotate(op) THEN [ratio |-> "440", ok |-> TRUE] ELSE same
       [] subsampleRatio = "440" ->
            IF oddY THEN no
            ELSE IF IsRotate(op) THEN [ratio |-> "422", ok |-> TRUE] ELSE same
       [] subsampleRatio \in {"411", "410"} ->
            IF off4X THEN no ELSE IF oddY THEN no ELSE same
       [] OTHER -> no

\* The resolver with the test of the Y edges kept for 410 only.
rotateYCbCrSubsampleRatioNoYCheck411(subsampleRatio, bounds, op) ==
  LET oddX == AndMask(bounds.minX, 1) # 0 \/ AndMask(bounds.maxX, 1) # 0
      oddY == AndMask(bounds.minY, 1) # 0 \/ AndMask(bounds.maxY, 1) # 0
      off4X == AndMask(bounds.minX, 3) # 0 \/ AndMask(bounds.maxX, 3) # 0
      no == [ratio |-> "-1", ok |-> FALSE]
      same == [ratio |-> subsampleRatio, ok |-> TRUE]
  IN CASE subsampleRatio = "444" -> same
       [] subsampleRatio = "420" -> IF oddX \/ oddY THEN no ELSE same
       [] subsampleRatio = "422" ->
            IF oddX THEN no
            ELSE IF IsRotate(op) THEN [ratio |-> "440", ok |-> TRUE] ELSE same
       [] subsampleRatio = "440" ->
            IF oddY THEN no
            ELSE IF IsRotate(op) THEN [ratio |-> "422", ok |-> TRUE] ELSE same
       [] subsampleRatio \in {"411", "410"} ->
            IF off4X THEN no
            ELSE IF subsampleRatio = "410" /\ oddY THEN no
            ELSE IF IsRotate(op) THEN no ELSE same
       [] OTHER -> no

\* rotateYCbCrSubsampleRatio: [ratio, ok].
rotateYCbCrSubsampleRatio(subsampleRatio, bounds, op) ==
  LET oddX == AndMask(bounds.minX, 1) # 0 \/ AndMask(bounds.maxX, 1) # 0
      oddY == AndMask(bounds.minY, 1) # 0 \/ AndMask(bounds.maxY, 1) # 0
      off4X == AndMask(bounds.minX, 3) # 0 \/ AndMask(bounds.maxX, 3) # 0
      no == [ratio |-> "-1", ok |-> FALSE]
      same == [ratio |-> subsampleRatio, ok |-> TRUE]
  IN CASE subsampleRatio = "444" -> same
       [] subsampleRatio = "420" -> IF oddX \/ oddY THEN no ELSE same
       [] subsampleRatio = "422" ->
            IF oddX THEN no
            ELSE IF IsRotate(op) THEN [ratio |-> "440", ok |-> TRUE] ELSE same
       [] subsampleRatio = "440" ->
            IF oddY THEN no
            ELSE IF IsRotate(op) THEN [ratio |-> "422", ok |-> TRUE] ELSE same
       [] subsampleRatio \in {"411", "410"} ->
            IF off4X THEN no
            ELSE IF oddY THEN no
            ELSE IF IsRotate(op) THEN no ELSE same
       [] OTHER -> no

\* subsampledBounds: [ok, rect]; ok FALSE is the panic of the default case.
subsampledBounds(bounds, subsampleRatio) ==
  LET halfY == [bounds EXCEPT !.minY = GoDiv(bounds.minY + 0, 2),
                              !.maxY = GoDiv(bounds.maxY + 1, 2)]
      halfX(b) == [b EXCEPT !.minX = GoDiv(b.minX + 0, 2),
                            !.maxX = GoDiv(b.maxX + 1, 2)]
      quarterX(b) == [b EXCEPT !.minX = GoDiv(b.minX + 0, 4),
                               !.maxX = GoDiv(b.maxX + 3, 4)]
  IN CASE subsampleRatio = "440" -> [ok |-> TRUE, rect |-> halfY]
       [] subsampleRatio = "444" -> [ok |-> TRUE, rect |-> bounds]
       [] subsampleRatio = "420" -> [ok |-> TRUE, rect |-> halfX(halfY)]
       [] subsampleRatio = "422" -> [ok |-> TRUE, rect |-> halfX(bounds)]
       [] subsampleRatio = "410" -> [ok |-> TRUE, rect |-> quarterX(halfY)]
       [] subsampleRatio = "411" -> [ok |-> TRUE, rect |-> quarterX(bounds)]
       [] OTHER -> [ok |-> FALSE, rect |-> bounds]

\* A call's outcome: the heap after it, whether it returned ("ok") or
\* panicked, the path taken and the image returned.
Outcome(h, status, path, img) ==
  [heap |-> h, status |-> status, path |-> path, img |-> img]

NoImage == [kind |-> "nil"]

\* One rotateFlip call of Image on a plane: reads the source slice, writes
\* the destination slice.  [ok, heap].
rotatePlane(h, dst, dst_stride, dst_width, dst_height, srcs, src_stride, src_width, src_height, op, bpp) ==
  With(rotateFlip(Bytes(h, dst), dst_stride, dst_width, dst_height,
                  Bytes(h, srcs), src_stride, src_width, src_height, op, bpp),
       LAMBDA r : [ok |-> r.ok, heap |-> Store(h, dst, r.dst)])

\* The end of a fast path: the new image, or the panic of a copy.
fastOutcome(r, dst) ==
  IF r.ok THEN Outcome(r.heap, "ok", "fast", dst)
  ELSE Outcome(r.heap, "panic", "fast", NoImage)

\* The rotateFlip call of the fast path for a packed layout, into the new
\* image n.img.
rotatePacked(n, s, op) ==
  fastOutcome(rotatePlane(n.heap, n.img.Pix, n.img.Stride, Dx(n.img.Rect),
                          Dy(n.img.Rect), s.Pix, s.Stride, Dx(s.Rect),
                          Dy(s.Rect), op, BytesPerPixel(s.kind)),
              n.img)

\* A fast path that turns the pixels inside the source's own Pix.
ImagePackedInPlace(h, s, op, bounds) ==
  rotatePacked([heap |-> h,
                img |-> [s EXCEPT !.Rect = bounds,
                                  !.Stride = BytesPerPixel(s.kind) * Dx(bounds)]],
               s, op)

\* The fast path of Image for the packed layouts.
ImagePacked(h, s, op, bounds) ==
  rotatePacked(NewPacked(h, s.kind, bounds, s.Palette), s, op)

\* rotateFlip on the luma plane (and the alpha plane alike).
rotateLuma(h, dstp, dstStride, dst, srcp, srcStride, s, op) ==
  rotatePlane(h, dstp, dstStride, Dx(dst.Rect), Dy(dst.Rect), srcp, srcStride,
              Dx(s.Rect), Dy(s.Rect), op, 1)

\* rotateFlip on a chroma plane, with the chroma rectangles dc and sc.
rotateChroma(h, dstp, dst, dc, srcp, s, sc, op) ==
  rotatePlane(h, dstp, dst.CStride, Dx(dc), Dy(dc), srcp, s.CStride, Dx(sc),
              Dy(sc), op, 1)

\* The rotateFlip calls of the fast path for YCbCr and NYCbCrA, in the
\* order of the code: Y, (A,) Cb, Cr.
rotatePlanar(h, dst, s, op, sc, dc) ==
  Bind(rotateLuma(h, dst.Y, dst.YStride, dst, s.Y, s.YStride, s, op),
    LAMBDA ry :
      Bind(IF s.kind = "NYCbCrA"
           THEN rotateLuma(ry.heap, dst.A, dst.AStride, dst, s.A, s.AStride, s, op)
           ELSE ry,
        LAMBDA ra :
          Bind(rotateChroma(ra.heap, dst.Cb, dst, dc, s.Cb, s, sc, op),
            LAMBDA rb : rotateChroma(rb.heap, dst.Cr, dst, dc, s.Cr, s, sc, op))))

\* The fast path into the new image n.img, with the chroma rectangles the
\* code computes before the copies.
chromaBoundsThenRotate(n, s, op, sc, dc) ==
  IF ~sc.ok \/ ~dc.ok THEN Outcome(n.heap, "panic", "fast", NoImage)
  ELSE fastOutcome(rotatePlanar(n.heap, n.img, s, op, sc.rect, dc.rect), n.img)

\* The fast path of Image for YCbCr and NYCbCrA, once the resolver has
\* accepted the ratio.
ImagePlanar(h, s, op, bounds, sr) ==
  With(NewPlanar(h, s.kind, bounds, sr), LAMBDA n :
    chromaBoundsThenRotate(n, s, op,
                           subsampledBounds(s.Rect, s.SubsampleRatio),
                           subsampledBounds(n.img.Rect, n.img.SubsampleRatio)))

\* The lazy view Image returns on the slow path.
rotateFlipImage(s, op) == [kind |-> "rotateFlipImage", src |-> s, op |-> op]

\* The type switch of Image and the slow path after it, for a sanitized,
\* non-zero op.
ImageSwitch(h, s, op, bounds) ==
  IF s.kind \in PackedKinds THEN ImagePacked(h, s, op, bounds)
  ELSE IF s.kind \in PlanarKinds
  THEN With(rotateYCbCrSubsampleRatio(s.SubsampleRatio, s.Rect, op), LAMBDA q :
         IF q.ok THEN ImagePlanar(h, s, op, bounds, q.ratio)
         ELSE Outcome(h, "ok", "lazy", rotateFlipImage(s, op)))
  ELSE Outcome(h, "ok", "lazy", rotateFlipImage(s, op))

\* Image applies an Operation to an image.
Image(h, s, opcode) ==
  With(Sanitize(opcode), LAMBDA op :
    IF op = 0 THEN Outcome(h, "ok", "nop", s)
    ELSE ImageSwitch(h, s, op, rotateBounds(Bounds(s), op)))

---------------------------------------------------------------------------
(* Package imageutil.                                                      *)

\* subsampleRatios: [ok, sx, sy]; ok FALSE is the panic after the switch.
subsampleRatiosDefault(subsampleRatio) ==
  CASE subsampleRatio = "422" -> [ok |-> TRUE, sx |-> 2, sy |-> 1]
    [] subsampleRatio = "420" -> [ok |-> TRUE, sx |-> 2, sy |-> 2]
    [] subsampleRatio = "440" -> [ok |-> TRUE, sx |-> 1, sy |-> 2]
    [] subsampleRatio = "411" -> [ok |-> TRUE, sx |-> 4, sy |-> 1]
    [] subsampleRatio = "410" -> [ok |-> TRUE, sx |-> 4, sy |-> 2]
    [] OTHER -> [ok |-> TRUE, sx |-> 1, sy |-> 1]

subsampleRatios(subsampleRatio) ==
  CASE subsampleRatio = "444" -> [ok |-> TRUE, sx |-> 1, sy |-> 1]
    [] subsampleRatio = "422" -> [ok |-> TRUE, sx |-> 2, sy |-> 1]
    [] subsampleRatio = "420" -> [ok |-> TRUE, sx |-> 2, sy |-> 2]
    [] subsampleRatio = "440" -> [ok |-> TRUE, sx |-> 1, sy |-> 2]
    [] subsampleRatio = "411" -> [ok |-> TRUE, sx |-> 4, sy |-> 1]
    [] subsampleRatio = "410" -> [ok |-> TRUE, sx |-> 4, sy |-> 2]
    [] OTHER -> [ok |-> FALSE, sx |-> 0, sy |-> 0]

\* The loop of resample, from row i on, on the bytes of the two slices.
RECURSIVE resampleRows(_, _, _, _, _, _, _, _)
resampleRows(i, dst, dstOffset, dstStride, srcb, srcOffset, srcStride, count) ==
  IF i >= count THEN [ok |-> TRUE, dst |-> dst]
  ELSE Bind(GoCopy(dst, dstOffset, dstOffset + dstStride, srcb, srcOffset, Len(srcb)),
            LAMBDA c : resampleRows(i + 1, c.dst, dstOffset + dstStride,
                                    dstStride, srcb, srcOffset + srcStride,
                                    srcStride, count))

\* resample: copies count rows of dstStride bytes.  [ok, heap].
resample(h, dst, dstStride, srcs, srcStride, count) ==
  With(resampleRows(0, Bytes(h, dst), 0, dstStride, Bytes(h, srcs), 0, srcStride, count),
       LAMBDA r : [ok |-> r.ok, heap |-> Store(h, dst, r.dst)])

\* The chroma index without the subtraction of the rectangle's minimum.
upsampleIndexNoMin(s, sx, sy, x, y) ==
  GoDiv(y, sy) * s.CStride + GoDiv(x, sx)

\* The chroma index with the division taken after the subtraction of the
\* rectangle's minimum.
upsampleIndexLocal(s, sx, sy, x, y) ==
  GoDiv(y - s.Rect.minY, sy) * s.CStride + GoDiv(x - s.Rect.minX, sx)

\* The source chroma index upsample reads for luma position (x, y).
upsampleIndex(s, sx, sy, x, y) ==
  (GoDiv(y, sy) - GoDiv(s.Rect.minY, sy)) * s.CStride
    + (GoDiv(x, sx) - GoDiv(s.Rect.minX, sx))

\* dst[dst_pix] = src[src_pix]: [ok, dst], ok FALSE when an index is out
\* of range.
setByte(dst, dst_pix, srcb, src_pix) ==
  IF src_pix < 0 \/ src_pix >= Len(srcb) \/ dst_pix < 0 \/ dst_pix >= Len(dst)
  THEN [ok |-> FALSE, dst |-> dst]
  ELSE [ok |-> TRUE, dst |-> [dst EXCEPT ![dst_pix + 1] = srcb[src_pix + 1]]]

\* The inner loop of upsample (the branch taken when sx is not 0), from
\* column x on.
RECURSIVE upsampleCols(_, _, _, _, _, _, _, _)
upsampleCols(x, y, dst, dst_pix, srcb, s, sx, sy) ==
  IF x >= s.Rect.maxX THEN [ok |-> TRUE, dst |-> dst]
  ELSE Bind(setByte(dst, dst_pix, srcb, upsampleIndex(s, sx, sy, x, y)),
            LAMBDA c : upsampleCols(x + 1, y, c.dst, dst_pix + 1, srcb, s, sx, sy))

\* The outer loop of that branch, from row y on; dst_pix has advanced by
\* one per pixel of the rows before.
RECURSIVE upsamplePixels(_, _, _, _, _, _, _)
upsamplePixels(y, dst, dst_pix, srcb, s, sx, sy) ==
  IF y >= s.Rect.maxY THEN [ok |-> TRUE, dst |-> dst]
  ELSE Bind(upsampleCols(s.Rect.minX, y, dst, dst_pix, srcb, s, sx, sy),
            LAMBDA c : upsamplePixels(y + 1, c.dst,
                                      dst_pix + (IF Dx(s.Rect) > 0 THEN Dx(s.Rect) ELSE 0),
                                      srcb, s, sx, sy))

\* The loop of the branch of upsample taken when sx is 0, from row y on.
RECURSIVE upsampleRows(_, _, _, _, _, _, _)
upsampleRows(y, dst, dst_row, dstCStride, srcb, s, sy) ==
  IF y >= s.Rect.maxY THEN [ok |-> TRUE, dst |-> dst]
  ELSE Bind(GoCopy(dst, dst_row, dst_row + dstCStride, srcb,
                   (GoDiv(y, sy) - GoDiv(s.Rect.minY, sy)) * s.CStride, Len(srcb)),
            LAMBDA c : upsampleRows(y + 1, c.dst, dst_row + dstCStride,
                                    dstCStride, srcb, s, sy))

\* upsample on one chroma plane (the code fills Cb and Cr in the same loop
\* with the same indices).  [ok, dst].
upsamplePlane(dst, dstCStride, srcb, s, sx, sy) ==
  IF sx = 0 THEN upsampleRows(s.Rect.minY, dst, 0, dstCStride, srcb, s, sy)
  ELSE upsamplePixels(s.Rect.minY, dst, 0, srcb, s, sx, sy)

\* upsample with the factors f of the source's ratio.  [ok, heap].
upsamplePlanes(h, s, dst, f) ==
  IF ~f.ok THEN [ok |-> FALSE, heap |-> h]
  ELSE Bind(upsamplePlane(Bytes(h, dst.Cb), dst.CStride, Bytes(h, s.Cb), s, f.sx, f.sy),
         LAMBDA cb :
           Bind(upsamplePlane(Bytes(h, dst.Cr), dst.CStride, Bytes(h, s.Cr), s, f.sx, f.sy),
             LAMBDA cr :
               [ok |-> TRUE,
                heap |-> Store(Store(h, dst.Cb, cb.dst), dst.Cr, cr.dst)]))

\* A panic inside upsample leaves the heap as the steps before left it.
upsample(h, s, dst) ==
  With(upsamplePlanes(h, s, dst, subsampleRatios(s.SubsampleRatio)),
       LAMBDA u : [ok |-> u.ok, heap |-> IF u.ok THEN u.heap ELSE h])

\* The end of an upsampler: the new image, or the panic of a step.
newOutcome(r, dst) ==
  IF r.ok THEN Outcome(r.heap, "ok", "new", dst)
  ELSE Outcome(r.heap, "panic", "new", NoImage)

\* The steps of YCbCrUpsample on the new image n.img.
upsampleYCbCr(n, img) ==
  newOutcome(
    Bind(resample(n.heap, n.img.Y, n.img.YStride, img.Y, img.YStride, Dy(img.Rect)),
         LAMBDA ry : upsample(ry.heap, img, n.img)),
    n.img)

\* YCbCrUpsample without the early return for a 1x1 source.
YCbCrUpsampleAlways(h, img) ==
  upsampleYCbCr(NewPlanar(h, "YCbCr", img.Rect, "444"), img)

\* YCbCrUpsample.
YCbCrUpsample(h, img) ==
  IF img.SubsampleRatio = "444" THEN Outcome(h, "ok", "same", img)
  ELSE upsampleYCbCr(NewPlanar(h, "YCbCr", img.Rect, "444"), img)

\* The steps of NYCbCrAUpsample on the new image n.img.
upsampleNYCbCrA(n, img) ==
  newOutcome(
    Bind(resample(n.heap, n.img.Y, n.img.YStride, img.Y, img.YStride, Dy(img.Rect)),
      LAMBDA ry :
        Bind(resample(ry.heap, n.img.A, n.img.AStride, img.A, img.AStride, Dy(img.Rect)),
          LAMBDA ra : upsample(ra.heap, img, n.img))),
    n.img)

\* NYCbCrAUpsample.
NYCbCrAUpsample(h, img) ==
  IF img.SubsampleRatio = "444" THEN Outcome(h, "ok", "same", img)
  ELSE upsampleNYCbCrA(NewPlanar(h, "NYCbCrA", img.Rect, "444"), img)

\* The upsampler for the image's own layout, as the test selects it.
Upsample(h, img) ==
  IF img.kind = "NYCbCrA" THEN NYCbCrAUpsample(h, img) ELSE YCbCrUpsample(h, img)

---------------------------------------------------------------------------
(* The sources under test, as the tests build them: a parent image with    *)
(* known bytes, and every crop of it.                                      *)

\* The parent rectangles: at the origin, at a negative origin, and the two
\* degenerate ones (no columns, no rows).
Parents ==
  {Rect(0, 0, ParentW, ParentH), Rect(-ParentW, -ParentH, 0, 0),
   Rect(0, 0, 0, ParentH), Rect(0, 0, ParentW, 0)}

\* Every well-formed rectangle inside p, the empty ones included.
SubRects(p) ==
  {r \in [minX : p.minX..p.maxX, minY : p.minY..p.maxY,
          maxX : p.minX..p.maxX, maxY : p.minY..p.maxY] :
     r.minX <= r.maxX /\ r.minY <= r.maxY}

\* The layouts of the sources: the packed ones, and the planar ones at each
\* ratio (one value outside the enumeration included).
Layouts ==
  {<<k, "444">> : k \in PackedKinds}
    \cup (PlanarKinds \X (Ratios \cup {UnknownRatio}))

\* A new image of the layout.  [heap, img].
NewImage(h, layout, r) ==
  IF layout[1] \in PackedKinds
  THEN NewPacked(h, layout[1], r, IF layout[1] = "Paletted" THEN Plan9 ELSE "")
  ELSE NewPlanar(h, layout[1], r, layout[2])

\* The test's init/random: known bytes, all different, in every plane.
FillPix(h) ==
  SubSeq([b \in 1..Len(h) |-> SubSeq([i \in 1..Len(h[b]) |-> i], 1, Len(h[b]))],
         1, Len(h))

\* The positions of a rectangle.
Pixels(r) == {<<x, y>> : x \in r.minX..(r.maxX - 1), y \in r.minY..(r.maxY - 1)}

\* The image's own At works at every position of its rectangle: each offset
\* lies inside its plane.  With negative coordinates the library's
\* truncating chroma offsets can leave the planes NewYCbCr allocates; such
\* an image cannot be read at all and is no source.
Readable(img) ==
  IF img.kind \in PackedKinds THEN TRUE
  ELSE \A p \in Pixels(img.Rect) :
         /\ YOffset(img, p[1], p[2]) \in 0..(SliceLen(img.Y) - 1)
         /\ COffset(img, p[1], p[2]) \in 0..(SliceLen(img.Cb) - 1)
         /\ COffset(img, p[1], p[2]) \in 0..(SliceLen(img.Cr) - 1)

\* What a call has returned: "none" before the call.
NoResult == [status |-> "none", path |-> "none", img |-> NoImage]

Result(o) == [status |-> o.status, path |-> o.path, img |-> o.img]

Init ==
  \E layout \in Layouts, p \in Parents :
    \E r \in SubRects(p) :
      With(NewImage(<< >>, layout, p), LAMBDA n :
         /\ heap = FillPix(n.heap)
         /\ src = IF r = p THEN n.img ELSE SubImage(n.img, r)
         /\ Readable(src)
         /\ hist = << >>
         /\ rf1 = NoResult
         /\ rf2 = NoResult
         /\ ups = NoResult
         /\ ups2 = NoResult)

\* The operation codes a caller hands to Image, out-of-range ones included.
OpCodes == (-MaxOpCode)..MaxOpCode

\* testSub: Image on the source, and Image on the source behind a wrapper.
TestSub(n) ==
  /\ hist = << >>
  /\ With(Image(heap, src, n), LAMBDA o1 :
       With(Image(o1.heap, Wrapper(src), n), LAMBDA o2 :
         /\ rf1' = Result(o1)
         /\ rf2' = Result(o2)
         /\ heap' = o2.heap))
  /\ hist' = <<n>>
  /\ UNCHANGED <<src, ups, ups2>>

\* The chains of calls the model follows after the first: a rotation and
\* then a flip, or the same quarter turn again.
Chained(h, b) ==
  \/ Len(h) = 1 /\ h[1] \in {Rotate90, Rotate180, Rotate270}
       /\ b \in {FlipX, FlipY, FlipXY}
  \/ b = Rotate90 /\ \A i \in 1..Len(h) : h[i] = Rotate90

\* Image applied to the image the previous call returned.
Again(b) ==
  /\ hist # << >>
  /\ Len(hist) < MaxChain
  /\ Chained(hist, b)
  /\ rf1.status = "ok"
  /\ With(Image(heap, rf1.img, b), LAMBDA o :
       /\ rf1' = Result(o)
       /\ heap' = o.heap)
  /\ hist' = Append(hist, b)
  /\ UNCHANGED <<src, rf2, ups, ups2>>

\* The upsampler on the source.
TestUpsample ==
  /\ ups.status = "none"
  /\ src.kind \in PlanarKinds
  /\ With(Upsample(heap, src), LAMBDA o :
       /\ ups' = Result(o)
       /\ heap' = o.heap)
  /\ UNCHANGED <<src, hist, rf1, rf2, ups2>>

\* The upsampler on its own output.
UpsampleAgain ==
  /\ ups.status = "ok"
  /\ ups2.status = "none"
  /\ With(Upsample(heap, ups.img), LAMBDA o :
       /\ ups2' = Result(o)
       /\ heap' = o.heap)
  /\ UNCHANGED <<src, hist, rf1, rf2, ups>>

Next ==
  \/ \E n \in OpCodes : TestSub(n)
  \/ \E b \in 1..7 : Again(b)
  \/ TestUpsample
  \/ UpsampleAgain

Spec == Init /\ [][Next]_vars

---------------------------------------------------------------------------
(* The claims.                                                             *)

\* Two images show the same rectangle and the same colour at each of its
\* positions.
SameView(h, a, b) ==
  /\ Bounds(a) = Bounds(b)
  /\ \A p \in Pixels(Bounds(a)) : At(h, a, p[1], p[2]) = At(h, b, p[1], p[2])

\* The state right after testSub, and the sanitized code it was called with.
FirstCall == Len(hist) = 1

FirstOp == Sanitize(hist[1])

IsEven(x) == x % 2 = 0

\* C1: for every recognized layout, every operation and every source, crops
\* included, Image(src, op) and Image(wrapper(src), op) both return, with
\* equal bounds and the same colour at every position inside them.
C1_FastSlowEquivalence ==
  FirstCall =>
    /\ rf1.status = "ok"
    /\ rf2.status = "ok"
    /\ SameView(heap, rf1.img, rf2.img)

\* C2: for every enumerated ratio and every YCbCr or NYCbCrA source, crops
\* with an odd or unaligned minimum included, the upsampler returns an image
\* with the source's bounds that yields, at every position, the luma, alpha
\* and chroma values the source yields there.
C2_UpsamplePreservesPixels ==
  (ups.status # "none" /\ src.SubsampleRatio \in Ratios) =>
    /\ ups.status = "ok"
    /\ SameView(heap, ups.img, src)

\* A 2x2 subsampled crop with an odd minimum on both axes was upsampled
\* into a new image.
C2_Witness ==
  /\ ups.status = "ok"
  /\ ups.path = "new"
  /\ src.SubsampleRatio = "420"
  /\ ~Empty(src.Rect)
  /\ ~IsEven(src.Rect.minX)
  /\ ~IsEven(src.Rect.minY)
  /\ Dx(src.Rect) >= 2

\* The rectangle C3 states for one call on an image with bounds r.
C3Rect(r, op) ==
  IF op = 0 THEN r
  ELSE IF op \in {Rotate90, Rotate270, Transpose, Transverse}
  THEN Rect(0, 0, Dy(r), Dx(r))
  ELSE Rect(0, 0, Dx(r), Dy(r))

\* The rectangle C3 states after the calls h[1..n] applied in sequence.
RECURSIVE C3Chain(_, _, _)
C3Chain(r, h, n) ==
  IF n = 0 THEN r ELSE C3Rect(C3Chain(r, h, n - 1), Sanitize(h[n]))

\* C3: every image Image returns, from the fast path or as the lazy view,
\* has rectangle (0,0)-(H,W) for a rotational operation and (0,0)-(W,H) for
\* the other operations 1..7, W and H being the width and height of the
\* image it was applied to, whatever its minimum; for operation 0 it keeps
\* the rectangle of that image.
C3_ResultRectangle ==
  /\ (hist # << >> /\ rf1.status = "ok") =>
       Bounds(rf1.img) = C3Chain(Bounds(src), hist, Len(hist))
  /\ (FirstCall /\ rf2.status = "ok") =>
       Bounds(rf2.img) = C3Rect(Bounds(src), FirstOp)

\* A crop that is not square and not at the origin was turned by a
\* rotational operation on the fast path and, wrapped, on the lazy one.
C3_Witness ==
  /\ FirstCall
  /\ FirstOp \in {Rotate90, Rotate270, Transpose, Transverse}
  /\ rf1.status = "ok" /\ rf1.path = "fast"
  /\ rf2.status = "ok" /\ rf2.path = "lazy"
  /\ Dx(src.Rect) > Dy(src.Rect) /\ Dy(src.Rect) > 0
  /\ src.Rect.minX # 0

\* The table of C4: whether a rectangle suits a ratio.
C4Compatible(ratio, r) ==
  CASE ratio = "444" -> TRUE
    [] ratio = "420" -> IsEven(r.minX) /\ IsEven(r.maxX) /\ IsEven(r.minY) /\ IsEven(r.maxY)
    [] ratio = "422" -> IsEven(r.minX) /\ IsEven(r.maxX)
    [] ratio = "440" -> IsEven(r.minY) /\ IsEven(r.maxY)

\* The table of C4: the ratio after the operation.
C4Ratio(ratio, op) ==
  IF op \in {Rotate90, Rotate270, Transpose, Transverse}
  THEN CASE ratio = "422" -> "440" [] ratio = "440" -> "422" [] OTHER -> ratio
  ELSE ratio

\* C4: for the ratios 1x1, 2x2, 2x1 and 1x2 the resolver reports compatible
\* exactly when the table says so (1x1 always, 2x2 all four edges even, 2x1
\* both X edges even, 1x2 both Y edges even), with the input ratio as the
\* result except that a rotational operation exchanges 2x1 and 1x2; Image
\* takes the fast path exactly in that case, and the image it returns from
\* it has the resulting ratio.
C4_ResolverTable ==
  (FirstCall /\ FirstOp # 0 /\ src.kind \in PlanarKinds
     /\ src.SubsampleRatio \in {"444", "420", "422", "440"}) =>
    LET ok == C4Compatible(src.SubsampleRatio, src.Rect)
        q == rotateYCbCrSubsampleRatio(src.SubsampleRatio, src.Rect, FirstOp)
    IN /\ q.ok = ok
       /\ ok => q.ratio = C4Ratio(src.SubsampleRatio, FirstOp)
       /\ (rf1.path = "fast") = ok
       /\ (rf1.path = "fast" /\ rf1.status = "ok") =>
            rf1.img.SubsampleRatio = C4Ratio(src.SubsampleRatio, FirstOp)

\* A 2x1 crop with even X edges and an odd Y minimum was turned by a
\* quarter turn on the fast path, and came out as 1x2.
C4_Witness ==
  /\ FirstCall
  /\ FirstOp = Rotate90
  /\ src.kind \in PlanarKinds
  /\ src.SubsampleRatio = "422"
  /\ ~Empty(src.Rect)
  /\ ~IsEven(src.Rect.minY)
  /\ rf1.status = "ok" /\ rf1.path = "fast"
  /\ rf1.img.SubsampleRatio = "440"

\* The source position C5 names for position (x, y) of the view.
C5Inverse(b, op, x, y) ==
  CASE op = Rotate90 -> <<b.minX + y, b.maxY - 1 - x>>
    [] op = Rotate270 -> <<b.maxX - 1 - y, b.minY + x>>
    [] op = Transpose -> <<b.minX + y, b.minY + x>>
    [] op = Transverse -> <<b.maxX - 1 - y, b.maxY - 1 - x>>

\* C5: for a YCbCr or NYCbCrA source of ratio 4x1 or 4x2 and a rotational
\* operation, whatever the alignment of the rectangle, Image returns the
\* lazy view: its rectangle has the source's width and height exchanged, and
\* its colour at (x, y) is the source's at the inverse-mapped position.
C5_QuarterRatiosRotateLazily ==
  (FirstCall /\ src.kind \in PlanarKinds /\ src.SubsampleRatio \in {"411", "410"}
     /\ FirstOp \in {Rotate90, Rotate270, Transpose, Transverse}) =>
    /\ rf1.status = "ok"
    /\ rf1.path = "lazy"
    /\ rf1.img = rotateFlipImage(src, FirstOp)
    /\ Bounds(rf1.img) = Rect(0, 0, Dy(src.Rect), Dx(src.Rect))
    /\ \A p \in Pixels(Bounds(rf1.img)) :
         At(heap, rf1.img, p[1], p[2])
           = At(heap, src, C5Inverse(src.Rect, FirstOp, p[1], p[2])[1],
                C5Inverse(src.Rect, FirstOp, p[1], p[2])[2])

\* A 4x1 source whose X edges are multiples of 4 and whose Y edges are
\* even (the alignment the non-rotational fast path asks for) was turned
\* by a quarter turn and came back as the lazy view.
C5_Witness ==
  /\ FirstCall
  /\ FirstOp = Rotate90
  /\ src.kind \in PlanarKinds
  /\ src.SubsampleRatio = "411"
  /\ ~Empty(src.Rect)
  /\ src.Rect.minX % 4 = 0 /\ src.Rect.maxX % 4 = 0
  /\ IsEven(src.Rect.minY) /\ IsEven(src.Rect.maxY)
  /\ rf1.path = "lazy"

\* Two images, each in its own heap, have the same width and height and
\* show the same colour at each position counted from their minimum.
SameFromOrigin(ha, a, hb, b) ==
  /\ Dx(Bounds(a)) = Dx(Bounds(b))
  /\ Dy(Bounds(a)) = Dy(Bounds(b))
  /\ \A p \in Pixels(Rect(0, 0, Dx(Bounds(a)), Dy(Bounds(a)))) :
       At(ha, a, Bounds(a).minX + p[1], Bounds(a).minY + p[2])
         = At(hb, b, Bounds(b).minX + p[1], Bounds(b).minY + p[2])

\* The source alone in its heap, as it is before any call.
SourceHeap == <<heap[1]>>

\* C6: for every operation code n, negative or above 7 included, and every
\* image, Image(src, n) does not fail and gives the result of
\* Image(src, n mod 8), n mod 8 being in 0..7; when n mod 8 = 0 it returns
\* the source image itself.
C6_OperationSanitizing ==
  FirstCall =>
    /\ hist[1] % 8 \in 0..7
    /\ rf1.status = "ok"
    /\ With(Image(SourceHeap, src, hist[1] % 8), LAMBDA d :
         /\ d.status = "ok"
         /\ rf1.path = d.path
         /\ Bounds(rf1.img) = Bounds(d.img)
         /\ SameFromOrigin(heap, rf1.img, d.heap, d.img))
    /\ (hist[1] % 8 = 0 => rf1.img = src /\ rf1.path = "nop")

\* The named composite of C7 for a rotation a followed by a flip b.
C7Composite(a, b) ==
  CASE a = Rotate90 /\ b = FlipX -> Transpose
    [] a = Rotate180 /\ b = FlipX -> FlipY
    [] a = Rotate270 /\ b = FlipX -> Transverse
    [] a = Rotate90 /\ b = FlipY -> Transverse
    [] a = Rotate180 /\ b = FlipY -> FlipX
    [] a = Rotate270 /\ b = FlipY -> Transpose
    [] a = Rotate90 /\ b = FlipXY -> Rotate270
    [] a = Rotate180 /\ b = FlipXY -> None
    [] a = Rotate270 /\ b = FlipXY -> Rotate90

\* The calls so far are the start of a chain C7 speaks of.
C7Chain ==
  /\ hist # << >>
  /\ \/ hist[1] \in {Rotate90, Rotate180, Rotate270}
          /\ (Len(hist) > 1 => Len(hist) = 2 /\ hist[2] \in {FlipX, FlipY, FlipXY})
     \/ \A i \in 1..Len(hist) : hist[i] = Rotate90

\* C7: Image applied twice, a rotation a and then a flip b, yields at every
\* pixel the value one application of the named composite yields; FlipXY
\* twice and Rotate90 four times return the original pixel values, counted
\* from the rectangle's origin.
C7_DihedralComposition ==
  /\ C7Chain => rf1.status = "ok"
  /\ (C7Chain /\ Len(hist) = 2 /\ hist[1] \in {Rotate90, Rotate180, Rotate270}
        /\ hist[2] \in {FlipX, FlipY, FlipXY}) =>
       With(Image(SourceHeap, src, C7Composite(hist[1], hist[2])), LAMBDA d :
         /\ d.status = "ok"
         /\ SameFromOrigin(heap, rf1.img, d.heap, d.img))
  /\ hist = <<Rotate90, Rotate90, Rotate90, Rotate90>> =>
       SameFromOrigin(heap, rf1.img, heap, src)

\* C8: over any sequence of Image and upsampler calls on a source, the
\* source's planes keep every byte, and its strides, rectangle, ratio and
\* palette stay as they were; a call writes only into a buffer it has
\* allocated itself, so that calls on one source may interleave.
C8_SourceNeverMutated ==
  /\ [](\A i \in 1..Len(heap[1]) : heap[1][i] = i)
  /\ [][/\ src' = src
        /\ Len(heap') >= Len(heap)
        /\ \A k \in 1..Len(heap) : heap'[k] = heap[k]]_vars

\* Image on the fast path and the upsampler have both run on one source,
\* each into a buffer of its own.
C8_Witness ==
  /\ FirstCall
  /\ rf1.status = "ok" /\ rf1.path = "fast"
  /\ ups.status = "ok" /\ ups.path = "new"
  /\ ~Empty(src.Rect)
  /\ Len(heap) >= 3

\* What C9 states of the results the upsampler has returned.
C9Shape ==
  /\ (ups.status # "none" /\ src.SubsampleRatio \in Ratios) =>
       /\ ups.status = "ok"
       /\ IF src.SubsampleRatio = "444"
          THEN ups.img = src /\ ups.path = "same"
          ELSE /\ ups.path = "new"
               /\ ups.img.kind = src.kind
               /\ ups.img.Rect = src.Rect
               /\ ups.img.SubsampleRatio = "444"
               /\ ups.img.Y.buf # src.Y.buf
  /\ ups2.status # "none" =>
       ups2.status = "ok" /\ ups2.path = "same" /\ ups2.img = ups.img

\* What C9 states of the allocations of an upsampler call.
C9Alloc ==
  /\ ups' # ups =>
       IF ups'.path = "same" THEN heap' = heap
       ELSE /\ Len(heap') = Len(heap) + 1
            /\ ups'.status = "ok" => ups'.img.Y.buf = Len(heap')
  /\ ups2' # ups2 => heap' = heap

\* C9: the upsamplers return the source image itself, without allocating,
\* when its ratio is already 1x1, and otherwise a newly allocated image
\* with the source's rectangle and ratio 1x1; the upsampler applied to its
\* own output returns that output unchanged.
C9_UpsampleIdentityAndShape == []C9Shape /\ [][C9Alloc]_vars

\* A subsampled crop was upsampled into a new image, and that image was
\* handed to the upsampler again.
C9_Witness ==
  /\ ups.status = "ok" /\ ups.path = "new"
  /\ src.SubsampleRatio = "420"
  /\ ~Empty(src.Rect)
  /\ ups2.status = "ok"

\* The source is a planar image whose ratio is none of the six.
UnknownSource == src.kind \in PlanarKinds /\ src.SubsampleRatio = UnknownRatio

\* C10, as stated: a planar image of unknown ratio that reaches the resolver
\* through Image with an operation 1..7, or the upsampler, ends the call in
\* a panic.
C10_UnknownRatioIsFatal ==
  UnknownSource =>
    /\ (FirstCall /\ FirstOp # 0) => rf1.status = "panic"
    /\ ups.status # "none" => ups.status = "panic"

\* C10, amended: a planar image of unknown ratio that reaches the upsampler
\* ends the call in a panic; through Image with an operation 1..7 the
\* resolver reports it incompatible and Image returns the lazy view.
C10_UnknownRatioFatalInUpsampler ==
  UnknownSource =>
    /\ (FirstCall /\ FirstOp # 0) =>
         /\ ~rotateYCbCrSubsampleRatio(src.SubsampleRatio, src.Rect, FirstOp).ok
         /\ rf1.status = "ok"
         /\ rf1.path = "lazy"
         /\ rf1.img = rotateFlipImage(src, FirstOp)
    /\ ups.status # "none" => ups.status = "panic"

\* An image of unknown ratio went through Image with a rotation and through
\* the upsampler.
C10_Witness ==
  /\ UnknownSource
  /\ FirstCall /\ FirstOp = Rotate90
  /\ rf1.path = "lazy"
  /\ ups.status = "panic"
  /\ ~Empty(src.Rect)

\* The source position C11 names for position (x, y) of the view.
C11Map(b, op, x, y) ==
  CASE op = FlipX -> <<b.maxX - 1 - x, b.minY + y>>
    [] op = FlipXY -> <<b.maxX - 1 - x, b.maxY - 1 - y>>
    [] op = FlipY -> <<b.minX + x, b.maxY - 1 - y>>
    [] op = Transpose -> <<b.minX + y, b.minY + x>>
    [] op = Rotate90 -> <<b.minX + y, b.maxY - 1 - x>>
    [] op = Transverse -> <<b.maxX - 1 - y, b.maxY - 1 - x>>
    [] op = Rotate270 -> <<b.maxX - 1 - y, b.minY + x>>

\* The source positions C11's mapping reaches from the rectangle v.
C11Image(b, op, v) == {C11Map(b, op, p[1], p[2]) : p \in Pixels(v)}

\* C11: for every (x, y) inside the lazy view's rectangle,
\* rotateFlipImage.At(x, y) reads the source at the position the table
\* names for the operation; the mapping is a bijection from the view's
\* rectangle onto the source rectangle; under Rotate90 the source's
\* top-left pixel appears at the view's top-right.
C11_LazyViewMapping ==
  (FirstCall /\ FirstOp # 0 /\ rf2.status = "ok") =>
    /\ rf2.img = rotateFlipImage(Wrapper(src), FirstOp)
    /\ \A p \in Pixels(Bounds(rf2.img)) :
         /\ rotateFlipImageAt(Bounds(src), FirstOp, p[1], p[2])
              = C11Map(Bounds(src), FirstOp, p[1], p[2])
         /\ C11Map(Bounds(src), FirstOp, p[1], p[2]) \in Pixels(Bounds(src))
         /\ At(heap, rf2.img, p[1], p[2])
              = At(heap, src, C11Map(Bounds(src), FirstOp, p[1], p[2])[1],
                   C11Map(Bounds(src), FirstOp, p[1], p[2])[2])
    /\ C11Image(Bounds(src), FirstOp, Bounds(rf2.img)) = Pixels(Bounds(src))
    /\ Cardinality(Pixels(Bounds(rf2.img))) = Cardinality(Pixels(Bounds(src)))
    /\ (FirstOp = Rotate90 /\ ~Empty(Bounds(src))) =>
         /\ C11Map(Bounds(src), Rotate90, Bounds(rf2.img).maxX - 1, 0)
              = <<Bounds(src).minX, Bounds(src).minY>>
         /\ At(heap, rf2.img, Bounds(rf2.img).maxX - 1, 0)
              = At(heap, src, Bounds(src).minX, Bounds(src).minY)

\* A 4x2 Gray image away from the origin, all of whose pixels differ, was
\* seen through the Rotate90 view.
C11_Witness ==
  /\ FirstCall
  /\ FirstOp = Rotate90
  /\ rf2.status = "ok" /\ rf2.path = "lazy"
  /\ src.kind = "Gray"
  /\ Dx(src.Rect) = 4 /\ Dy(src.Rect) = 2
  /\ src.Rect.minX # 0

\* Both X edges of the rectangle are multiples of 4.
C12AlignedX(r) == r.minX % 4 = 0 /\ r.maxX % 4 = 0

\* Both Y edges of the rectangle are even.
C12EvenY(r) == IsEven(r.minY) /\ IsEven(r.maxY)

\* A 4x1 or 4x2 source went through Image with Rotate180, FlipX or FlipY.
C12Case(ratios) ==
  /\ FirstCall
  /\ src.kind \in PlanarKinds
  /\ src.SubsampleRatio \in ratios
  /\ FirstOp \in {Rotate180, FlipX, FlipY}

\* C12, as stated: for ratio 4x1 and a non-rotational operation the
\* resolver reports compatible, and the fast path is taken, exactly when
\* both X edges are multiples of 4, whatever the parity of the Y edges.
C12_QuarterWidthIgnoresYParity ==
  C12Case({"411"}) =>
    /\ rotateYCbCrSubsampleRatio(src.SubsampleRatio, src.Rect, FirstOp).ok
         = C12AlignedX(src.Rect)
    /\ (rf1.path = "fast") = C12AlignedX(src.Rect)

\* C12, amended: for ratio 4x1 as for ratio 4x2, and a non-rotational
\* operation, the resolver reports compatible (ratio unchanged, fast path
\* taken) exactly when both X edges are multiples of 4 and both Y edges
\* are even.
C12_QuarterWidthNeedsEvenY ==
  C12Case({"411", "410"}) =>
    /\ rotateYCbCrSubsampleRatio(src.SubsampleRatio, src.Rect, FirstOp)
         = IF C12AlignedX(src.Rect) /\ C12EvenY(src.Rect)
           THEN [ratio |-> src.SubsampleRatio, ok |-> TRUE]
           ELSE [ratio |-> "-1", ok |-> FALSE]
    /\ (rf1.path = "fast") = (C12AlignedX(src.Rect) /\ C12EvenY(src.Rect))
    /\ (rf1.path = "fast" /\ rf1.status = "ok") =>
         rf1.img.SubsampleRatio = src.SubsampleRatio

\* A 4x1 crop whose X edges are multiples of 4 and whose Y minimum is odd
\* was flipped, and came back as the lazy view.
C12_Witness ==
  /\ C12Case({"411"})
  /\ FirstOp = FlipX
  /\ ~Empty(src.Rect)
  /\ C12AlignedX(src.Rect)
  /\ ~IsEven(src.Rect.minY)
  /\ rf1.status = "ok" /\ rf1.path = "lazy"

\* floor(a / f) and ceil(a / f) for a positive factor f.
C13Floor(a, f) == a \div f

C13Ceil(a, f) == -((-a) \div f)

\* The chroma rectangle C13 states: floor of the minimum, ceiling of the
\* maximum, by the factors of the ratio.
C13Rect(r, ratio) ==
  With(subsampleRatios(ratio), LAMBDA f :
    Rect(C13Floor(r.minX, f.sx), C13Floor(r.minY, f.sy),
         C13Ceil(r.maxX, f.sx), C13Ceil(r.maxY, f.sy)))

\* C13: for every ratio and every well-formed luma rectangle, negative
\* coordinates included, subsampledBounds returns the rectangle whose
\* minimum is floor(min / factor) and whose maximum is ceil(max / factor)
\* on each axis; its width and height are the chroma columns and rows that
\* cover the luma rectangle, and match the chroma plane of an image
\* allocated for that rectangle and ratio.
C13_ChromaRectangleRounding ==
  (FirstCall /\ src.kind \in PlanarKinds /\ src.SubsampleRatio \in Ratios) =>
    /\ subsampledBounds(src.Rect, src.SubsampleRatio)
         = [ok |-> TRUE, rect |-> C13Rect(src.Rect, src.SubsampleRatio)]
    /\ ~Empty(src.Rect) =>
         /\ Dx(subsampledBounds(src.Rect, src.SubsampleRatio).rect)
              = yCbCrSize(src.Rect, src.SubsampleRatio).cw
         /\ Dy(subsampledBounds(src.Rect, src.SubsampleRatio).rect)
              = yCbCrSize(src.Rect, src.SubsampleRatio).ch

\* The step from one pixel of a source row to the next in the destination,
\* as rotateFlip computes it.
C14XOffset(dst_stride, op, bpp) ==
  IF IsRotate(op) THEN (IF AndMask(op, 3) >= 2 THEN -dst_stride ELSE dst_stride)
  ELSE (IF parity(op) THEN -bpp ELSE bpp)

\* The offset in the destination of the first source pixel, as rotateFlip
\* computes it.
C14Start(dst_stride, dst_width, dst_height, op, bpp) ==
  (IF parity(op) THEN bpp * (dst_width - 1) ELSE 0)
    + (IF AndMask(op, 3) >= 2 THEN dst_stride * (dst_height - 1) ELSE 0)

\* The per-pixel branch of rotateFlip on the arguments c of a call, whatever
\* branch rotateFlip selects for them.
C14PerPixel(c) ==
  pixelRows(0, c[1], C14Start(c[2], c[3], c[4], c[9], c[10]), 0, c[5], c[6],
            c[7], c[8], C14XOffset(c[2], c[9], c[10]),
            IF IsRotate(c[9]) THEN (IF parity(c[9]) THEN -c[10] ELSE c[10])
            ELSE (IF AndMask(c[9], 3) >= 2 THEN -c[2] ELSE c[2]),
            c[10])

\* rotateFlip on the arguments c of a call.
C14RotateFlip(c) ==
  rotateFlip(c[1], c[2], c[3], c[4], c[5], c[6], c[7], c[8], c[9], c[10])

\* A destination plane as it is allocated: n zero bytes.
C14Zeros(n) == SubSeq([i \in 1..n |-> 0], 1, n)

\* The arguments of a rotateFlip call of Image on a luma-sized plane.
C14Plane(dstp, dstStride, dst, srcp, srcStride, op, bpp) ==
  <<C14Zeros(SliceLen(dstp)), dstStride, Dx(dst.Rect), Dy(dst.Rect),
    Bytes(heap, srcp), srcStride, Dx(src.Rect), Dy(src.Rect), op, bpp>>

\* The arguments of a rotateFlip call of Image on a chroma plane.
C14Chroma(dstp, dst, srcp, op) ==
  <<C14Zeros(SliceLen(dstp)), dst.CStride,
    Dx(subsampledBounds(dst.Rect, dst.SubsampleRatio).rect),
    Dy(subsampledBounds(dst.Rect, dst.SubsampleRatio).rect),
    Bytes(heap, srcp), src.CStride,
    Dx(subsampledBounds(src.Rect, src.SubsampleRatio).rect),
    Dy(subsampledBounds(src.Rect, src.SubsampleRatio).rect), op, 1>>

\* The rotateFlip calls of the fast path of Image(src, op) into the new
\* image dst.
C14CallsInto(dst, op) ==
  IF src.kind \in PackedKinds
  THEN {C14Plane(dst.Pix, dst.Stride, dst, src.Pix, src.Stride, op,
                 BytesPerPixel(src.kind))}
  ELSE {C14Plane(dst.Y, dst.YStride, dst, src.Y, src.YStride, op, 1),
        C14Chroma(dst.Cb, dst, src.Cb, op), C14Chroma(dst.Cr, dst, src.Cr, op)}
         \cup IF src.kind = "NYCbCrA"
              THEN {C14Plane(dst.A, dst.AStride, dst, src.A, src.AStride, op, 1)}
              ELSE {}

\* The rotateFlip calls of the call Image(src, FirstOp) that took the fast
\* path.
C14Calls ==
  C14CallsInto(
    IF src.kind \in PackedKinds
    THEN NewPacked(<< >>, src.kind, rotateBounds(src.Rect, FirstOp), src.Palette).img
    ELSE NewPlanar(<< >>, src.kind, rotateBounds(src.Rect, FirstOp),
                   rotateYCbCrSubsampleRatio(src.SubsampleRatio, src.Rect, FirstOp).ratio).img,
    FirstOp)

\* C14: rotateFlip selects the row-copy branch (dst_x_offset == bpp) for
\* FlipY, and for Rotate90 and Transpose when the destination stride equals
\* bpp; whenever it does, the destination it produces is byte for byte the
\* one the per-pixel branch produces for the same source, strides,
\* dimensions, operation and bytes per pixel.
C14_CopierPathEquivalence ==
  (FirstCall /\ FirstOp # 0 /\ rf1.path = "fast") =>
    \A c \in C14Calls :
      /\ (C14XOffset(c[2], c[9], c[10]) = c[10])
           = (c[9] = FlipY \/ (c[9] \in {Rotate90, Transpose} /\ c[2] = c[10]))
      /\ C14XOffset(c[2], c[9], c[10]) = c[10] =>
           C14RotateFlip(c) = C14PerPixel(c)

\* A Gray16 image several pixels wide was flipped by FlipY through the
\* row-copy branch.
C14_Witness ==
  /\ FirstCall
  /\ FirstOp = FlipY
  /\ src.kind = "Gray16"
  /\ Dx(src.Rect) >= 3 /\ Dy(src.Rect) = 2
  /\ rf1.status = "ok" /\ rf1.path = "fast"
  /\ C14XOffset(rf1.img.Stride, FlipY, 2) = 2

\* A luma row one pixel high was turned by Rotate90 into a destination one
\* pixel wide, through the row-copy branch.
C14_WitnessQuarterTurn ==
  /\ FirstCall
  /\ FirstOp = Rotate90
  /\ src.kind = "Gray"
  /\ Dx(src.Rect) >= 3 /\ Dy(src.Rect) = 1
  /\ rf1.status = "ok" /\ rf1.path = "fast"
  /\ C14XOffset(rf1.img.Stride, Rotate90, 1) = 1

\* The chroma index C15 states: the division after the subtraction of the
\* rectangle's minimum.
C15Relative(s, sx, sy, x, y) ==
  ((y - s.Rect.minY) \div sy) * s.CStride + ((x - s.Rect.minX) \div sx)

\* The chroma index of the amended C15: each coordinate divided, with Go's
\* division, before the subtraction.
C15Absolute(s, sx, sy, x, y) ==
  (GoDiv(y, sy) - GoDiv(s.Rect.minY, sy)) * s.CStride
    + (GoDiv(x, sx) - GoDiv(s.Rect.minX, sx))

\* The chroma bytes of the upsampled image d at (x, y) are the bytes of the
\* source's chroma slices at index i.
C15ReadsFrom(d, x, y, i) ==
  /\ i \in 0..(SliceLen(src.Cb) - 1)
  /\ i \in 0..(SliceLen(src.Cr) - 1)
  /\ Bytes(heap, d.Cb)[COffset(d, x, y) + 1] = Bytes(heap, src.Cb)[i + 1]
  /\ Bytes(heap, d.Cr)[COffset(d, x, y) + 1] = Bytes(heap, src.Cr)[i + 1]

\* The upsampler has built a new image from the source.
C15Case == ups.status = "ok" /\ ups.path = "new"

\* C15, as stated: the destination chroma sample at (x, y) is read from the
\* source chroma plane at row (y - minY) / sy and column (x - minX) / sx,
\* and the sample at the rectangle's minimum from index 0.
C15_UpsamplerBlockIndex ==
  C15Case =>
    With(subsampleRatios(src.SubsampleRatio), LAMBDA f :
      /\ \A p \in Pixels(src.Rect) :
           C15ReadsFrom(ups.img, p[1], p[2],
                        C15Relative(src, f.sx, f.sy, p[1], p[2]))
      /\ ~Empty(src.Rect) =>
           C15ReadsFrom(ups.img, src.Rect.minX, src.Rect.minY, 0))

\* C15, amended: the destination chroma sample at (x, y) is read from the
\* source chroma plane at row y/sy - minY/sy and column x/sx - minX/sx
\* (each coordinate divided before the subtraction, as image.YCbCr.COffset
\* does), and the sample at the rectangle's minimum from index 0.
C15_UpsamplerBlockIndexAbsolute ==
  C15Case =>
    With(subsampleRatios(src.SubsampleRatio), LAMBDA f :
      /\ \A p \in Pixels(src.Rect) :
           /\ upsampleIndex(src, f.sx, f.sy, p[1], p[2])
                = C15Absolute(src, f.sx, f.sy, p[1], p[2])
           /\ C15ReadsFrom(ups.img, p[1], p[2],
                           C15Absolute(src, f.sx, f.sy, p[1], p[2]))
      /\ ~Empty(src.Rect) =>
           /\ upsampleIndex(src, f.sx, f.sy, src.Rect.minX, src.Rect.minY) = 0
           /\ C15ReadsFrom(ups.img, src.Rect.minX, src.Rect.minY, 0))

\* A 2x1 crop with an odd X minimum was upsampled: at its second column the
\* two indices differ.
C15_Witness ==
  /\ C15Case
  /\ src.SubsampleRatio = "422"
  /\ ~IsEven(src.Rect.minX)
  /\ Dx(src.Rect) >= 2 /\ Dy(src.Rect) >= 1
  /\ C15Relative(src, 2, 1, src.Rect.minX + 1, src.Rect.minY)
       # C15Absolute(src, 2, 1, src.Rect.minX + 1, src.Rect.minY)

\* The destination offset rotateFlip writes source pixel (x, y) of the call
\* c at.
C16Offset(c, x, y) ==
  C14Start(c[2], c[3], c[4], c[9], c[10])
    + y * (IF IsRotate(c[9]) THEN (IF parity(c[9]) THEN -c[10] ELSE c[10])
           ELSE (IF AndMask(c[9], 3) >= 2 THEN -c[2] ELSE c[2]))
    + x * C14XOffset(c[2], c[9], c[10])

\* The source pixels the loops of the call c run over.
C16Pixels(c) == (0..(c[7] - 1)) \X (0..(c[8] - 1))

\* Each pixel of the destination plane of the call c is written exactly
\* once: the writes go to different pixels, and to all of them.
C16WrittenOnce(c) ==
  /\ \A p, q \in C16Pixels(c) :
       C16Offset(c, p[1], p[2]) = C16Offset(c, q[1], q[2]) => p = q
  /\ {C16Offset(c, p[1], p[2]) : p \in C16Pixels(c)}
       = {c[10] * i : i \in 0..((Len(c[1]) \div c[10]) - 1)}

\* C16: for every layout, every operation 1..7 and every source rectangle
\* the dispatcher sends to the fast path, empty rectangles and rectangles
\* with negative edges included, every slice index of rotateFlip lies
\* inside the buffers (no panic), and each pixel of each destination plane
\* is written exactly once.
C16_FastPathIndexSafety ==
  (FirstCall /\ FirstOp # 0 /\ rf1.path = "fast") =>
    /\ rf1.status = "ok"
    /\ \A c \in C14Calls : C14RotateFlip(c).ok /\ C16WrittenOnce(c)

===========================================================================
